---- MODULE Spec2Model ----
(***************************************************************************)
(* Model of the client connection manager of ChatDocument                   *)
(* (createWebSocketManager in hooks/useWebSocket.ts): one shared            *)
(* WebSocket, reference-counted over its consumers, with a keep-alive      *)
(* interval, a reconnect timeout and two listener sets.                    *)
(*                                                                         *)
(* Sockets are numbered 1, 2, ... in creation order.  A keep-alive         *)
(* interval is identified by the socket whose open event created it, a     *)
(* reconnect timeout by the socket whose close event scheduled it; every   *)
(* socket opens and closes at most once, so these handles are unique.      *)
(***************************************************************************)
EXTENDS Integers, Sequences, FiniteSets, TLC

\* ------------------------------------------------------------ bounds ----
MaxConsumers == 2      \* components that may use the manager
MaxMounts == 2         \* connect() calls made by consumers in one run
MaxDrops == 2          \* closes started by the server or the network
MaxSends == 2          \* send() calls in one run
MaxPings == 1          \* keep-alive frames put on the wire in one run
MaxListeners == 2      \* distinct message listeners
MaxSubscribers == 1    \* distinct connection-state listeners

MaxConversations == 2  \* rows the conversations table may hold
MaxMessages == 1       \* rows the messages table may hold
MaxAttachments == 1    \* rows the attachments table may hold

MaxInFlight == 1       \* delete calls of the chat page in flight at once
MaxChunks == 2         \* stream_chunk events accumulated in one turn
MaxSelections == 1     \* file selections made in one run
MaxSelected == 2       \* files picked in one selection

Consumers == 1..MaxConsumers
MessageListenerIds == 1..MaxListeners
StateListenerIds == 1..MaxSubscribers

NULL == 0

\* inbound frame texts: not JSON; the JSON literal null; an event object
\* whose data member is missing; two well-formed events
MessageTexts == {"garbage", "null", "error_nodata", "pong", "stream_chunk"}

VARIABLES
    ws,                 \* the manager's current socket, or NULL
    rs,                 \* rs[s]: readyState of socket s, for every socket created
    pingInterval,       \* handle held in pingInterval, or NULL
    activePings,        \* handles of the intervals that are running
    reconnectTimeout,   \* handle held in reconnectTimeout, or NULL
    pendingReconnects,  \* handles of the timeouts that are scheduled
    listeners,          \* connection-state listeners
    observed,           \* observed[l]: snapshot l read when last notified
    messageListeners,   \* message listeners, in insertion order
    connectionCount,
    connected,          \* consumers that called connect() and not yet disconnect()
    mounts,             \* connect() calls made by consumers so far
    drops,              \* closes started by the server or the network so far
    nextMsg,            \* id of the next application message handed to send()
    transmitted,        \* application messages put on a socket
    rejected,           \* application messages for which send() returned false
    pingsSent,          \* keep-alive frames put on a socket
    lastDispatch,       \* outcome of the onmessage handler, if it ran last
    \* the database (supabase/migrations/..._initial_schema.sql)
    tblConversations,   \* conversations: id -> title
    tblMessages,        \* messages: id -> [conversation_id, role]
    tblAttachments,     \* attachments: id -> [message_id, conversation_id, type]
    lastOp,             \* the last statement or API call and its outcome
    \* the message input (ChatInput.tsx, FileUpload.tsx)
    message,            \* ChatInput's message, as its characters in order
    files,              \* ChatInput's pending attachments, in order
    isUploading,        \* ChatInput's isUploading
    selections,         \* file selections made so far
    selectedFiles,      \* the files of the selection being handled
    capturedFiles,      \* the files prop handleFileSelect closed over
    verdict,            \* verdict[i]: what became of selected file i
    alerts,             \* alerts[i]: alert() calls made for selected file i
    \* the chat page (Chat, useWebSocket) and the server it talks to
    isStreaming,        \* useWebSocket's isStreaming
    streamingContent,   \* Chat's streamingContent, as the chunks joined in it
    chunksSinceStart,   \* contents of the stream_chunk events since the last stream_start
    messages,           \* Chat's messages
    currentConversationId,  \* Chat's currentConversationId, or NULL
    chatRequests,       \* chat requests put on the wire, each with its socket
    answered,           \* chat requests whose stream_end or error has arrived
    serving,            \* the turn the server is running
    lastHandled,        \* the last server event and the state it was handled in
    \* the conversations of the chat page
    conversations,      \* Chat's conversations, in order
    isLoadingMessages,  \* Chat's isLoadingMessages
    inFlight,           \* API calls awaiting their response, with what they closed over
    listLoaded,         \* loadConversations of the mount effect has completed
    nextConversation    \* the id the server gives to the next conversation

mgrVars == <<ws, rs, pingInterval, activePings, reconnectTimeout, pendingReconnects,
             listeners, observed, messageListeners, connectionCount, connected,
             mounts, drops, nextMsg, transmitted, rejected, pingsSent, lastDispatch>>

tables == <<tblConversations, tblMessages, tblAttachments>>
dbVars == <<tables, lastOp>>

\* everything outside the connection manager
uploadVars == <<message, files, isUploading, selections, selectedFiles, capturedFiles,
                verdict, alerts>>

chatVars == <<isStreaming, streamingContent, chunksSinceStart, messages, currentConversationId,
              chatRequests, answered, serving, lastHandled>>

convVars == <<conversations, isLoadingMessages, inFlight, listLoaded, nextConversation>>

appVars == <<dbVars, uploadVars, chatVars, convVars>>

vars == <<mgrVars, appVars>>

timerVars == <<pingInterval, activePings, reconnectTimeout, pendingReconnects>>
sendVars == <<nextMsg, transmitted, rejected, pingsSent>>
envVars == <<mounts, drops>>

Sockets == 1..Len(rs)
NoDispatch == [op |-> "none"]

\* ----------------------------------------------------- pure helpers ----
\* ws?.readyState === WebSocket.OPEN
getSnapshot(w, r) == w # NULL /\ r[w] = "OPEN"

\* variant of AlreadyConnected that forgets the CONNECTING state
AlreadyConnectedOpenOnly(w, r) == w # NULL /\ r[w] = "OPEN"

\* the early return of connect(): already connected or connecting
AlreadyConnected(w, r) == w # NULL /\ r[w] \in {"OPEN", "CONNECTING"}

\* variant of ShouldReconnect that is off by one
ShouldReconnectOffByOne(n) == n > 1

\* the close handler's test for scheduling a reconnect
ShouldReconnect(n) == n > 0

\* variant of NoMoreConnections that is off by one
NoMoreConnectionsOffByOne(n) == n <= 1

\* disconnect()'s test for tearing the connection down
NoMoreConnections(n) == n <= 0

\* cleanup(): the intervals left running after clearInterval(pingInterval)
cleanup(pi, ap) == IF pi # NULL THEN ap \ {pi} ELSE ap

\* clearTimeout(reconnectTimeout) under its truthiness guard
clearReconnect(rt, pend) == IF rt # NULL THEN pend \ {rt} ELSE pend

\* variant of notifyListeners that calls no listener
notifyListenersNobody(obs, ls, snap) == obs

\* notifyListeners(): every subscribed listener re-reads the snapshot
notifyListeners(obs, ls, snap) ==
    [l \in StateListenerIds |-> IF l \in ls THEN snap ELSE obs[l]]

\* WebSocket.close(): OPEN and CONNECTING go to CLOSING, the rest is a no-op
CloseSocket(r, s) ==
    IF r[s] \in {"OPEN", "CONNECTING"} THEN [r EXCEPT ![s] = "CLOSING"] ELSE r

\* variant of SendOutcome that only tests for a missing socket
SendOutcomeNullCheckOnly(w, r) ==
    IF w = NULL
    THEN [ret |-> FALSE, tx |-> FALSE]
    ELSE [ret |-> TRUE, tx |-> r[w] = "OPEN"]

\* variant of SendOutcome that hands the frame to a socket that is still
\* connecting, to go out once it opens, and reports failure
SendOutcomeBuffered(w, r) ==
    IF ~ getSnapshot(w, r)
    THEN [ret |-> FALSE, tx |-> w # NULL /\ r[w] = "CONNECTING"]
    ELSE [ret |-> TRUE, tx |-> TRUE]

\* send(): what it returns and whether it puts the frame on the socket
SendOutcome(w, r) ==
    IF ~ getSnapshot(w, r)
    THEN [ret |-> FALSE, tx |-> FALSE]
    ELSE [ret |-> TRUE, tx |-> TRUE]

\* JSON.parse on a frame text: does it return a value?
JSONParses(text) == text # "garbage"

\* handleMessage(message) raises a TypeError: message is null (message.type),
\* or an error event without data (message.data.message)
handleMessageThrows(text) == text \in {"null", "error_nodata"}

\* number of listeners, in insertion order, that messageListeners.forEach
\* invokes before the try block is left
InvokedCount(text, ml) ==
    IF ~ JSONParses(text) THEN 0
    ELSE IF handleMessageThrows(text) /\ Len(ml) > 0 THEN 1
    ELSE Len(ml)

Range(seq) == {seq[i] : i \in 1..Len(seq)}
RemoveFromSeq(seq, x) == SelectSeq(seq, LAMBDA y : y # x)

\* ------------------------------------------------------------- Init ----
MgrInit ==
    /\ ws = NULL
    /\ rs = <<>>
    /\ pingInterval = NULL
    /\ activePings = {}
    /\ reconnectTimeout = NULL
    /\ pendingReconnects = {}
    /\ listeners = {}
    /\ observed = [l \in StateListenerIds |-> FALSE]
    /\ messageListeners = <<>>
    /\ connectionCount = 0
    /\ connected = {}
    /\ mounts = 0
    /\ drops = 0
    /\ nextMsg = 1
    /\ transmitted = {}
    /\ rejected = {}
    /\ pingsSent = 0
    /\ lastDispatch = NoDispatch

DbInit ==
    /\ tblConversations = <<>>
    /\ tblMessages = <<>>
    /\ tblAttachments = <<>>
    /\ lastOp = [op |-> "none"]

UploadInit ==
    /\ message = <<>>
    /\ files = <<>>
    /\ isUploading = FALSE
    /\ selections = 0
    /\ selectedFiles = <<>>
    /\ capturedFiles = <<>>
    /\ verdict = <<>>
    /\ alerts = <<>>

NoTurn == [phase |-> "idle"]
NoEvent == [type |-> "none"]

ChatInit ==
    /\ isStreaming = FALSE
    /\ streamingContent = <<>>
    /\ chunksSinceStart = <<>>
    /\ messages = <<>>
    /\ currentConversationId = NULL
    /\ chatRequests = {}
    /\ answered = {}
    /\ serving = NoTurn
    /\ lastHandled = NoEvent

ConvInit ==
    /\ conversations = <<>>
    /\ isLoadingMessages = FALSE
    /\ inFlight = {}
    /\ listLoaded = FALSE
    /\ nextConversation = 1

Init == MgrInit /\ DbInit /\ UploadInit /\ ChatInit /\ ConvInit

\* ---------------------------------------------------------- actions ----
\* connect(), run with pend as the set of scheduled timeouts
connect(pend) ==
    /\ connectionCount' = connectionCount + 1
    /\ IF AlreadyConnected(ws, rs)
       THEN /\ pendingReconnects' = pend
            /\ UNCHANGED <<ws, rs, reconnectTimeout>>
       ELSE /\ pendingReconnects' = clearReconnect(reconnectTimeout, pend)
            /\ reconnectTimeout' = NULL
            /\ rs' = Append(rs, "CONNECTING")
            /\ ws' = Len(rs) + 1
    /\ UNCHANGED <<pingInterval, activePings, listeners, observed, messageListeners>>

\* a consumer's effect runs wsManager.connect()
ConsumerConnect(c) ==
    /\ c \notin connected
    /\ mounts < MaxMounts
    /\ connected' = connected \cup {c}
    /\ mounts' = mounts + 1
    /\ connect(pendingReconnects)
    /\ lastDispatch' = NoDispatch
    /\ UNCHANGED appVars
    /\ UNCHANGED <<drops, sendVars>>

\* the reconnect timeout t fires and runs connect()
ReconnectTimerFires(t) ==
    /\ t \in pendingReconnects
    /\ connect(pendingReconnects \ {t})
    /\ lastDispatch' = NoDispatch
    /\ UNCHANGED appVars
    /\ UNCHANGED <<connected, envVars, sendVars>>

\* disconnect(), called by consumer c's effect cleanup
disconnect(c) ==
    /\ c \in connected
    /\ connected' = connected \ {c}
    /\ IF NoMoreConnections(connectionCount - 1)
       THEN /\ connectionCount' = 0
            /\ activePings' = cleanup(pingInterval, activePings)
            /\ pingInterval' = NULL
            /\ pendingReconnects' = clearReconnect(reconnectTimeout, pendingReconnects)
            /\ reconnectTimeout' = NULL
            /\ rs' = IF ws # NULL THEN CloseSocket(rs, ws) ELSE rs
            /\ ws' = NULL
       ELSE /\ connectionCount' = connectionCount - 1
            /\ UNCHANGED <<ws, rs, timerVars>>
    /\ lastDispatch' = NoDispatch
    /\ UNCHANGED appVars
    /\ UNCHANGED <<listeners, observed, messageListeners, envVars, sendVars>>

\* the open event of socket s: ws.onopen
OnOpen(s) ==
    /\ s \in Sockets
    /\ rs[s] = "CONNECTING"
    /\ rs' = [rs EXCEPT ![s] = "OPEN"]
    /\ observed' = notifyListeners(observed, listeners, getSnapshot(ws, rs'))
    /\ pingInterval' = s
    /\ activePings' = activePings \cup {s}
    /\ lastDispatch' = NoDispatch
    /\ UNCHANGED appVars
    /\ UNCHANGED <<ws, reconnectTimeout, pendingReconnects, listeners,
                   messageListeners, connectionCount, connected, envVars, sendVars>>

\* the server starts the closing handshake on socket s: readyState CLOSING,
\* no handler runs
ServerStartsClose(s) ==
    /\ s \in Sockets
    /\ rs[s] = "OPEN"
    /\ drops < MaxDrops
    /\ rs' = [rs EXCEPT ![s] = "CLOSING"]
    /\ drops' = drops + 1
    /\ lastDispatch' = NoDispatch
    /\ UNCHANGED appVars
    /\ UNCHANGED <<ws, timerVars, listeners, observed, messageListeners,
                   connectionCount, connected, mounts, sendVars>>

\* ws.onclose, run for socket s whose readyState has just become CLOSED
onclose(s) ==
    /\ rs' = [rs EXCEPT ![s] = "CLOSED"]
    /\ pingInterval' = NULL
    /\ activePings' = cleanup(pingInterval, activePings)
    /\ observed' = notifyListeners(observed, listeners, getSnapshot(ws, rs'))
    /\ IF ShouldReconnect(connectionCount)
       THEN /\ reconnectTimeout' = s
            /\ pendingReconnects' = pendingReconnects \cup {s}
       ELSE UNCHANGED <<reconnectTimeout, pendingReconnects>>
    /\ lastDispatch' = NoDispatch
    /\ UNCHANGED appVars
    /\ UNCHANGED <<ws, listeners, messageListeners, connectionCount, connected, sendVars>>

\* the close event of a socket whose closing handshake was under way
CloseCompletes(s) ==
    /\ s \in Sockets
    /\ rs[s] = "CLOSING"
    /\ onclose(s)
    /\ UNCHANGED envVars

\* the connection of socket s fails or is lost: close event without handshake
ConnectionLost(s) ==
    /\ s \in Sockets
    /\ rs[s] \in {"CONNECTING", "OPEN"}
    /\ drops < MaxDrops
    /\ drops' = drops + 1
    /\ onclose(s)
    /\ UNCHANGED mounts

\* the keep-alive interval p ticks
PingTick(p) ==
    /\ p \in activePings
    /\ getSnapshot(ws, rs)
    /\ pingsSent < MaxPings
    /\ pingsSent' = pingsSent + 1
    /\ lastDispatch' = NoDispatch
    /\ UNCHANGED appVars
    /\ UNCHANGED <<ws, rs, timerVars, listeners, observed, messageListeners,
                   connectionCount, connected, envVars, nextMsg, transmitted, rejected>>

\* send(data), data being application message number nextMsg
send ==
    /\ nextMsg <= MaxSends
    /\ LET out == SendOutcome(ws, rs) IN
         /\ transmitted' = IF out.tx THEN transmitted \cup {nextMsg} ELSE transmitted
         /\ rejected' = IF out.ret THEN rejected ELSE rejected \cup {nextMsg}
    /\ nextMsg' = nextMsg + 1
    /\ lastDispatch' = NoDispatch
    /\ UNCHANGED appVars
    /\ UNCHANGED <<ws, rs, timerVars, listeners, observed, messageListeners,
                   connectionCount, connected, envVars, pingsSent>>

subscribe(l) ==
    /\ l \notin listeners
    /\ listeners' = listeners \cup {l}
    /\ observed' = [observed EXCEPT ![l] = getSnapshot(ws, rs)]
    /\ lastDispatch' = NoDispatch
    /\ UNCHANGED appVars
    /\ UNCHANGED <<ws, rs, timerVars, messageListeners, connectionCount,
                   connected, envVars, sendVars>>

unsubscribe(l) ==
    /\ l \in listeners
    /\ listeners' = listeners \ {l}
    /\ lastDispatch' = NoDispatch
    /\ UNCHANGED appVars
    /\ UNCHANGED <<ws, rs, timerVars, observed, messageListeners, connectionCount,
                   connected, envVars, sendVars>>

addMessageListener(l) ==
    /\ l \notin Range(messageListeners)
    /\ messageListeners' = Append(messageListeners, l)
    /\ lastDispatch' = NoDispatch
    /\ UNCHANGED appVars
    /\ UNCHANGED <<ws, rs, timerVars, listeners, observed, connectionCount,
                   connected, envVars, sendVars>>

removeMessageListener(l) ==
    /\ l \in Range(messageListeners)
    /\ messageListeners' = RemoveFromSeq(messageListeners, l)
    /\ lastDispatch' = NoDispatch
    /\ UNCHANGED appVars
    /\ UNCHANGED <<ws, rs, timerVars, listeners, observed, connectionCount,
                   connected, envVars, sendVars>>

\* ws.onmessage for a frame with the given text arriving on socket s
OnMessage(s, text) ==
    /\ s \in Sockets
    /\ rs[s] = "OPEN"
    /\ lastDispatch' =
         [op |-> "message", text |-> text, registered |-> Range(messageListeners),
          calls |-> [l \in MessageListenerIds |->
                       Cardinality({i \in 1..InvokedCount(text, messageListeners) :
                                      messageListeners[i] = l})]]
    /\ UNCHANGED <<ws, rs, timerVars, listeners, observed, messageListeners,
                   connectionCount, connected, envVars, sendVars>>
    /\ UNCHANGED appVars

\* the connection's life cycle: consumers, socket events, the reconnect timeout
Lifecycle ==
    \/ \E c \in Consumers : ConsumerConnect(c)
    \/ \E c \in Consumers : disconnect(c)
    \/ \E t \in pendingReconnects : ReconnectTimerFires(t)
    \/ \E s \in Sockets : OnOpen(s)
    \/ \E s \in Sockets : ServerStartsClose(s)
    \/ \E s \in Sockets : CloseCompletes(s)
    \/ \E s \in Sockets : ConnectionLost(s)

\* outbound frames
Traffic ==
    \/ \E p \in activePings : PingTick(p)
    \/ send

\* listener registration and inbound frames
Listening ==
    \/ \E l \in StateListenerIds : subscribe(l)
    \/ \E l \in StateListenerIds : unsubscribe(l)
    \/ \E l \in MessageListenerIds : addMessageListener(l)
    \/ \E l \in MessageListenerIds : removeMessageListener(l)
    \/ \E s \in Sockets, text \in MessageTexts : OnMessage(s, text)

\* registration of connection-state listeners
Subscribing ==
    \/ \E l \in StateListenerIds : subscribe(l)
    \/ \E l \in StateListenerIds : unsubscribe(l)

Next == Lifecycle \/ Traffic

Spec == Init /\ [][Next]_vars

\* the browser's event loop runs every timeout that is scheduled and not cleared
LiveSpec ==
    /\ Init
    /\ [][Lifecycle]_vars
    /\ WF_vars(\E t \in pendingReconnects : ReconnectTimerFires(t))

\* the browser delivers the close event of every socket that is CLOSING
SnapshotSpec ==
    /\ Init
    /\ [][Lifecycle \/ Subscribing]_vars
    /\ WF_vars(\E s \in Sockets : CloseCompletes(s))

FanoutNext == Lifecycle \/ Listening

FanoutSpec == Init /\ [][FanoutNext]_vars

\* ========================================================= database ====
\* Primary keys are drawn from a pool; a key is free again once its row and
\* every row that referenced it are gone.
ConversationIds == 1..MaxConversations
MessageIds == 1..MaxMessages
AttachmentIds == 1..MaxAttachments

\* values an INSERT may carry for messages.role and attachments.type
RoleValues == {"user", "assistant", "system"}
TypeValues == {"image", "pdf", "video"}

\* conversations.title DEFAULT
TableDefaultTitle == "New Conversation"

\* titles an INSERT may carry: NoColumn stands for a statement that leaves
\* the title column out.  No constraint tells one given title from another,
\* so the statements issued here all take the default.
NoColumn == [given |-> FALSE, text |-> ""]
InsertTitles == {NoColumn}

\* variant of RoleCheck that also lets the system role through
RoleCheckWithSystem(role) == role \in {"user", "assistant", "system"}

\* CHECK (role IN ('user', 'assistant'))
RoleCheck(role) == role \in {"user", "assistant"}

\* CHECK (type IN ('image', 'pdf'))
TypeCheck(type) == type \in {"image", "pdf"}

\* the rows of f whose keys are not in gone
Without(f, gone) == [k \in DOMAIN f \ gone |-> f[k]]

\* messages removed by ON DELETE CASCADE when the conversations in convs go
CascadeMessages(msgs, convs) ==
    {m \in DOMAIN msgs : msgs[m].conversation_id \in convs}

\* variant of CascadeAttachments that follows attachments.conversation_id only
CascadeAttachmentsByConversationOnly(atts, convs, goneMsgs) ==
    {a \in DOMAIN atts : atts[a].conversation_id \in convs}

\* attachments removed by ON DELETE CASCADE when the conversations in convs
\* and the messages in goneMsgs go
CascadeAttachments(atts, convs, goneMsgs) ==
    {a \in DOMAIN atts :
        atts[a].conversation_id \in convs \/ atts[a].message_id \in goneMsgs}

\* INSERT INTO conversations
InsertConversation(id, title) ==
    /\ IF id \in DOMAIN tblConversations
       THEN /\ lastOp' = [op |-> "insert_conversation", ok |-> FALSE]
            /\ UNCHANGED tables
       ELSE /\ tblConversations' =
                 (id :> (IF title.given THEN title.text ELSE TableDefaultTitle))
                     @@ tblConversations
            /\ lastOp' = [op |-> "insert_conversation", ok |-> TRUE]
            /\ UNCHANGED <<tblMessages, tblAttachments>>
    /\ UNCHANGED <<mgrVars, uploadVars, chatVars, convVars>>

\* INSERT INTO messages
InsertMessage(id, conv, role) ==
    /\ LET ok == /\ id \notin DOMAIN tblMessages
                 /\ conv \in DOMAIN tblConversations
                 /\ RoleCheck(role)
       IN /\ tblMessages' =
               IF ok THEN (id :> [conversation_id |-> conv, role |-> role]) @@ tblMessages
               ELSE tblMessages
          /\ lastOp' = [op |-> "insert_message", value |-> role, ok |-> ok]
    /\ UNCHANGED <<tblConversations, tblAttachments, mgrVars, uploadVars, chatVars, convVars>>

\* INSERT INTO attachments
InsertAttachment(id, msg, conv, type) ==
    /\ LET ok == /\ id \notin DOMAIN tblAttachments
                 /\ msg \in DOMAIN tblMessages
                 /\ conv \in DOMAIN tblConversations
                 /\ TypeCheck(type)
       IN /\ tblAttachments' =
               IF ok
               THEN (id :> [message_id |-> msg, conversation_id |-> conv, type |-> type])
                        @@ tblAttachments
               ELSE tblAttachments
          /\ lastOp' = [op |-> "insert_attachment", value |-> type, ok |-> ok]
    /\ UNCHANGED <<tblConversations, tblMessages, mgrVars, uploadVars, chatVars, convVars>>

\* DELETE FROM conversations WHERE id = c
DeleteConversation(c) ==
    /\ c \in DOMAIN tblConversations
    /\ LET goneMsgs == CascadeMessages(tblMessages, {c})
           goneAtts == CascadeAttachments(tblAttachments, {c}, goneMsgs)
       IN /\ tblConversations' = Without(tblConversations, {c})
          /\ tblMessages' = Without(tblMessages, goneMsgs)
          /\ tblAttachments' = Without(tblAttachments, goneAtts)
          /\ lastOp' = [op |-> "delete_conversation", id |-> c,
                        messages |-> Cardinality(goneMsgs),
                        attachments |-> Cardinality(goneAtts)]
    /\ UNCHANGED <<mgrVars, uploadVars, chatVars, convVars>>

\* DELETE FROM messages WHERE id = m
DeleteMessage(m) ==
    /\ m \in DOMAIN tblMessages
    /\ LET goneAtts == CascadeAttachments(tblAttachments, {}, {m})
       IN /\ tblMessages' = Without(tblMessages, {m})
          /\ tblAttachments' = Without(tblAttachments, goneAtts)
          /\ lastOp' = [op |-> "delete_message", id |-> m,
                        attachments |-> Cardinality(goneAtts)]
    /\ UNCHANGED <<tblConversations, mgrVars, uploadVars, chatVars, convVars>>

\* DELETE FROM attachments WHERE id = a
DeleteAttachment(a) ==
    /\ a \in DOMAIN tblAttachments
    /\ tblAttachments' = Without(tblAttachments, {a})
    /\ lastOp' = [op |-> "delete_attachment", id |-> a]
    /\ UNCHANGED <<tblConversations, tblMessages, mgrVars, uploadVars, chatVars, convVars>>

\* arguments of createConversation(title?): none, the empty string, a blank
\* string, a title
CreateTitleArgs ==
    {[given |-> FALSE, text |-> ""], [given |-> TRUE, text |-> ""],
     [given |-> TRUE, text |-> " "], [given |-> TRUE, text |-> "Notes"]}

\* variant of RequestedTitle that falls back only when no title is passed
\* (title ?? "New Conversation")
RequestedTitleNullish(title) ==
    IF title.given THEN title.text ELSE "New Conversation"

\* title || "New Conversation": undefined and "" are falsy
RequestedTitle(title) ==
    IF title.given /\ title.text # "" THEN title.text ELSE "New Conversation"

\* createConversation(title): the body of the POST /api/conversations request
createConversation(title) ==
    /\ lastOp' = [op |-> "createConversation", arg |-> title,
                  body |-> [title |-> RequestedTitle(title)]]
    /\ UNCHANGED <<tables, mgrVars, uploadVars, chatVars, convVars>>

DbNext ==
    \/ \E id \in ConversationIds, t \in InsertTitles : InsertConversation(id, t)
    \/ \E id \in MessageIds, c \in ConversationIds, r \in RoleValues :
           InsertMessage(id, c, r)
    \/ \E id \in AttachmentIds, m \in MessageIds, c \in ConversationIds,
           t \in TypeValues : InsertAttachment(id, m, c, t)
    \/ \E c \in ConversationIds : DeleteConversation(c)
    \/ \E m \in MessageIds : DeleteMessage(m)
    \/ \E t \in CreateTitleArgs : createConversation(t)
    \/ \E a \in AttachmentIds : DeleteAttachment(a)

DbSpec == Init /\ [][DbNext]_vars

\* ====================================================== file upload ====
\* A selected file is its media type and its size in bytes.  The uploaded
\* file that comes of file i of selection k is written <<k, i>>.
ACCEPTED_TYPES ==
    {"image/jpeg", "image/png", "image/gif", "image/webp", "application/pdf"}

MAX_FILE_SIZE == 25 * 1024 * 1024

\* storage.buckets row 'chat-files'
BucketAllowedMimeTypes ==
    {"image/jpeg", "image/png", "image/gif", "image/webp", "application/pdf"}

BucketFileSizeLimit == 26214400

FileTypes == ACCEPTED_TYPES \cup BucketAllowedMimeTypes \cup {"text/plain"}
\* every media type at the largest size within the limit, and one accepted
\* and one refused media type at the smallest size beyond it
SelectableFiles ==
    {[type |-> t, size |-> 26214400] : t \in FileTypes}
        \cup {[type |-> t, size |-> 26214401] : t \in {"image/png", "text/plain"}}

SeqsUpTo(S, n) == UNION {[1..k -> S] : k \in 0..n}

\* variant of TypeAccepted that takes images only
TypeAcceptedImagesOnly(file) == file.type \in ACCEPTED_TYPES \ {"application/pdf"}

\* ACCEPTED_TYPES.includes(file.type)
TypeAccepted(file) == file.type \in ACCEPTED_TYPES

\* variant of SizeAccepted that also refuses a file of exactly the maximum
SizeAcceptedBelowMaxOnly(file) == ~ (file.size >= MAX_FILE_SIZE)

\* the negation of file.size > MAX_FILE_SIZE
SizeAccepted(file) == ~ (file.size > MAX_FILE_SIZE)

\* the two validations of handleFileSelect, in their order
ValidationVerdict(file) ==
    IF ~ TypeAccepted(file) THEN "rejected_type"
    ELSE IF ~ SizeAccepted(file) THEN "rejected_size"
    ELSE "accepted"

\* the bucket takes an object of an allowed media type up to its size limit
BucketAccepts(file) ==
    /\ file.type \in BucketAllowedMimeTypes
    /\ file.size <= BucketFileSizeLimit

\* variant of AfterRejection that leaves the loop (break)
AfterRejectionLeaveLoop(sel, i) == Len(sel) + 1

\* continue: the loop goes on with the next selected file
AfterRejection(sel, i) == i + 1

\* the index at which the loop, resumed at file i, reaches its next
\* await onUpload(file); Len(sel) + 1 when it runs to its end
RECURSIVE NextUpload(_, _)
NextUpload(sel, i) ==
    IF i > Len(sel) THEN Len(sel) + 1
    ELSE IF ValidationVerdict(sel[i]) = "accepted" THEN i
    ELSE NextUpload(sel, AfterRejection(sel, i))

\* the files the loop, resumed at file i, rejects before that point
RECURSIVE RejectedBefore(_, _)
RejectedBefore(sel, i) ==
    IF i > Len(sel) THEN {}
    ELSE IF ValidationVerdict(sel[i]) = "accepted" THEN {}
    ELSE {i} \cup RejectedBefore(sel, AfterRejection(sel, i))

\* the for loop of handleFileSelect, run from file i up to its next await:
\* one alert per rejected file, then handleUpload's setIsUploading(true)
RunLoop(sel, i, v, al) ==
    LET stop == NextUpload(sel, i)
        rej == RejectedBefore(sel, i)
    IN /\ verdict' = [j \in 1..Len(sel) |->
                         IF j \in rej THEN ValidationVerdict(sel[j])
                         ELSE IF j = stop THEN "uploading"
                         ELSE v[j]]
       /\ alerts' = [j \in 1..Len(sel) |-> IF j \in rej THEN al[j] + 1 ELSE al[j]]
       /\ isUploading' = (stop <= Len(sel))

Uploading == {i \in 1..Len(verdict) : verdict[i] = "uploading"}

\* the change event of the file input: handleFileSelect up to its first await
handleFileSelect(sel) ==
    /\ ~ isUploading
    /\ Uploading = {}
    /\ selections < MaxSelections
    /\ selections' = selections + 1
    /\ selectedFiles' = sel
    /\ capturedFiles' = files
    /\ RunLoop(sel, 1, [j \in 1..Len(sel) |-> "waiting"], [j \in 1..Len(sel) |-> 0])
    /\ UNCHANGED <<message, files, mgrVars, dbVars, chatVars, convVars>>

\* uploadFile(file) resolves: handleUpload's finally, onFilesChange with the
\* files the handler closed over, then the loop up to its next await
UploadResolves(i) ==
    /\ i \in Uploading
    /\ files' = Append(capturedFiles, <<selections, i>>)
    /\ RunLoop(selectedFiles, i + 1, [verdict EXCEPT ![i] = "uploaded"], alerts)
    /\ UNCHANGED <<message, selections, selectedFiles, capturedFiles, mgrVars, dbVars,
                   chatVars, convVars>>

\* uploadFile(file) throws: handleUpload's finally, the catch block's alert,
\* then the loop up to its next await
UploadFails(i) ==
    /\ i \in Uploading
    /\ RunLoop(selectedFiles, i + 1, [verdict EXCEPT ![i] = "failed"],
               [alerts EXCEPT ![i] = @ + 1])
    /\ UNCHANGED <<message, files, selections, selectedFiles, capturedFiles, mgrVars,
                   dbVars, chatVars, convVars>>

\* removeFile(fileId), from the files the component was last rendered with
removeFile(f) ==
    /\ f \in Range(files)
    /\ files' = RemoveFromSeq(files, f)
    /\ UNCHANGED <<message, isUploading, selections, selectedFiles, capturedFiles,
                   verdict, alerts, mgrVars, dbVars, chatVars, convVars>>

UploadNext ==
    \/ \E sel \in SeqsUpTo(SelectableFiles, MaxSelected) : handleFileSelect(sel)
    \/ \E i \in Uploading : UploadResolves(i)
    \/ \E i \in Uploading : UploadFails(i)
    \/ \E f \in Range(files) : removeFile(f)

UploadSpec == Init /\ [][UploadNext]_vars

\* ======================================================== chat page ====
\* The Chat component is consumer 1 of the manager: its hook registers
\* connection-state listener 1 and message listener 1.
ChatMounted ==
    /\ 1 \in listeners
    /\ 1 \in Range(messageListeners)
    /\ 1 \in connected

\* useSyncExternalStore(wsManager.subscribe, wsManager.getSnapshot)
isConnected == 1 \in listeners /\ observed[1]

\* the event types of WebSocketMessage that belong to a turn
ChatEvents == {"message_saved", "stream_start", "stream_chunk", "stream_end", "error"}

\* variant of onError that leaves the streamed text on the page
onErrorKeepsContent(content) == content

\* onError: setStreamingContent("")
onError(content) == <<>>

\* the texts a stream_chunk event may carry
ChunkContents == {"a", "b"}

\* variant of onStreamChunk that puts the new text in front
onStreamChunkInFront(prev, content) == <<content>> \o prev

\* onStreamChunk: setStreamingContent((prev) => prev + content)
onStreamChunk(prev, content) == Append(prev, content)

\* handleMessage(message) of the hook with the callbacks Chat passes to it:
\* the next isStreaming, streamingContent and messages
handleMessage(type, n, content) ==
    CASE type = "stream_start" ->
           [isStreaming |-> TRUE, streamingContent |-> <<>>, messages |-> messages]
      [] type = "stream_chunk" ->
           [isStreaming |-> isStreaming,
            streamingContent |-> onStreamChunk(streamingContent, content),
            messages |-> messages]
      [] type = "stream_end" ->
           [isStreaming |-> FALSE, streamingContent |-> <<>>,
            messages |-> Append(messages, [role |-> "assistant", n |-> n,
                                           conversation_id |-> currentConversationId])]
      [] type = "error" ->
           [isStreaming |-> FALSE, streamingContent |-> onError(streamingContent),
            messages |-> messages]
      [] OTHER ->
           [isStreaming |-> isStreaming, streamingContent |-> streamingContent,
            messages |-> messages]

\* the chat requests sent on socket s for which neither stream_end nor error
\* has arrived
Unanswered(s) == {r \in chatRequests : r.socket = s /\ r.n \notin answered}

Oldest(reqs) == CHOOSE r \in reqs : \A q \in reqs : r.n <= q.n

\* The server runs one turn at a time on a socket, the requests in their order:
\* message_saved, stream_start, stream_chunk events, then stream_end; an error
\* event may end the turn at any point.  A turn dies with its socket.
ServerTurn(s) ==
    IF serving.phase # "idle" /\ serving.socket = s THEN serving ELSE NoTurn

ServerMaySend(s) ==
    LET turn == ServerTurn(s)
    IN CASE turn.phase = "idle" ->
              IF Unanswered(s) = {} THEN {} ELSE {"message_saved"}
         [] turn.phase = "saved" -> {"stream_start", "error"}
         [] turn.phase = "started" ->
              {"stream_end", "error"}
                  \cup (IF Len(chunksSinceStart) < MaxChunks THEN {"stream_chunk"} ELSE {})

ServerAfter(s, type) ==
    LET turn == ServerTurn(s)
    IN CASE type = "message_saved" ->
              [phase |-> "saved", socket |-> s, n |-> Oldest(Unanswered(s)).n]
         [] type = "stream_start" -> [turn EXCEPT !.phase = "started"]
         [] type = "stream_chunk" -> turn
         [] OTHER -> NoTurn

\* ws.onmessage for an event of a turn arriving on socket s: the manager hands
\* it to its message listeners, the hook's handleMessage among them
ServerDelivers(s, type, content) ==
    /\ s \in Sockets
    /\ rs[s] = "OPEN"
    /\ type \in ServerMaySend(s)
    /\ type # "stream_chunk" => content = "a"
    /\ chunksSinceStart' =
         CASE type = "stream_start" -> <<>>
           [] type = "stream_chunk" -> Append(chunksSinceStart, content)
           [] OTHER -> chunksSinceStart
    /\ LET turn == IF type = "message_saved" THEN ServerAfter(s, type) ELSE ServerTurn(s)
        next == IF 1 \in Range(messageListeners)
                THEN handleMessage(type, turn.n, content)
                ELSE handleMessage("pong", turn.n, content)
       IN /\ isStreaming' = next.isStreaming
          /\ streamingContent' = next.streamingContent
          /\ messages' = next.messages
          /\ answered' = IF type \in {"stream_end", "error"}
                         THEN answered \cup {turn.n} ELSE answered
          /\ lastHandled' = [type |-> type, n |-> turn.n,
                             isStreaming |-> isStreaming,
                             streamingContent |-> streamingContent,
                             chunksSinceStart |-> chunksSinceStart,
                             messages |-> messages]
    /\ serving' = ServerAfter(s, type)
    /\ lastDispatch' =
         [op |-> "message", text |-> type, registered |-> Range(messageListeners),
          calls |-> [l \in MessageListenerIds |->
                       Cardinality({i \in 1..InvokedCount(type, messageListeners) :
                                      messageListeners[i] = l})]]
    /\ UNCHANGED <<currentConversationId, chatRequests>>
    /\ UNCHANGED <<ws, rs, timerVars, listeners, observed, messageListeners,
                   connectionCount, connected, envVars, sendVars>>
    /\ UNCHANGED <<dbVars, uploadVars, convVars>>

\* loadMessages(id) as started by the effect on currentConversationId
LoadOf(id) == [kind |-> "load", id |-> id]

\* setCurrentConversationId(new) with the effect that follows a change of the
\* id: loadMessages(new), or setMessages([]) when no conversation is selected
SelectionBecomes(new, calls, msgs) ==
    /\ currentConversationId' = new
    /\ IF new = currentConversationId
       THEN /\ inFlight' = calls
            /\ messages' = msgs
            /\ UNCHANGED isLoadingMessages
       ELSE IF new = NULL
       THEN /\ inFlight' = calls
            /\ messages' = <<>>
            /\ UNCHANGED isLoadingMessages
       ELSE /\ inFlight' = calls \cup {LoadOf(new)}
            /\ messages' = msgs
            /\ isLoadingMessages' = TRUE

\* handleNewConversation, createConversation() having returned conversation id
handleNewConversation(id) ==
    /\ ChatMounted
    /\ id = nextConversation
    /\ nextConversation' = nextConversation + 1
    /\ tblConversations' = (id :> RequestedTitle(NoColumn)) @@ tblConversations
    /\ lastOp' = [op |-> "createConversation", arg |-> NoColumn,
                  body |-> [title |-> RequestedTitle(NoColumn)]]
    /\ conversations' = <<[id |-> id, title |-> RequestedTitle(NoColumn)]>> \o conversations
    /\ SelectionBecomes(id, inFlight, <<>>)
    /\ lastHandled' = NoEvent
    /\ UNCHANGED <<tblMessages, tblAttachments, mgrVars, uploadVars, listLoaded>>
    /\ UNCHANGED <<isStreaming, streamingContent, chunksSinceStart, chatRequests,
                   answered, serving>>

\* the ids of a conversation list, in its order
IdsOf(list) == [i \in 1..Len(list) |-> list[i].id]

\* handleSelectConversation(id), a click on a conversation of the sidebar
handleSelectConversation(id) ==
    /\ ChatMounted
    /\ id \in Range(IdsOf(conversations))
    /\ id # currentConversationId
    /\ SelectionBecomes(id, inFlight, messages)
    /\ lastHandled' = NoEvent
    /\ UNCHANGED <<conversations, listLoaded, nextConversation>>
    /\ UNCHANGED <<isStreaming, streamingContent, chunksSinceStart, chatRequests,
                   answered, serving>>
    /\ UNCHANGED <<mgrVars, dbVars, uploadVars>>

\* the ids of a set, greatest first
RECURSIVE Descending(_)
Descending(S) ==
    IF S = {} THEN <<>>
    ELSE LET top == CHOOSE x \in S : \A y \in S : y <= x
         IN <<top>> \o Descending(S \ {top})

\* what GET /api/conversations/{id}/messages returns: the stored messages of
\* the conversation, oldest first
StoredMessages(id) ==
    LET desc == Descending({m \in DOMAIN tblMessages :
                              tblMessages[m].conversation_id = id})
    IN [i \in 1..Len(desc) |->
          [role |-> tblMessages[desc[Len(desc) + 1 - i]].role,
           n |-> desc[Len(desc) + 1 - i],
           conversation_id |-> id]]

\* getMessages(id) of a loadMessages call returns, or throws
loadMessagesCompletes(call, ok) ==
    /\ call \in inFlight
    /\ call.kind = "load"
    /\ ok => call.id \in DOMAIN tblConversations
    /\ inFlight' = inFlight \ {call}
    /\ messages' = IF ok THEN StoredMessages(call.id) ELSE messages
    /\ isLoadingMessages' = FALSE
    /\ lastHandled' = NoEvent
    /\ UNCHANGED <<conversations, listLoaded, nextConversation>>
    /\ UNCHANGED <<isStreaming, streamingContent, chunksSinceStart,
                   currentConversationId, chatRequests, answered, serving>>
    /\ UNCHANGED <<mgrVars, dbVars, uploadVars>>

\* handleDeleteConversation(id) up to its await: the call is in flight with
\* what its closure holds, whether currentConversationId === id and, read only
\* in that case, remaining = conversations.filter((c) => c.id !== id)
handleDeleteConversation(id) ==
    /\ ChatMounted
    /\ id \in Range(IdsOf(conversations))
    /\ Cardinality({call \in inFlight : call.kind = "delete"}) < MaxInFlight
    /\ inFlight' = inFlight \cup
                       {[kind |-> "delete", id |-> id,
                         selected |-> currentConversationId = id,
                         remaining |->
                           IF currentConversationId = id
                           THEN SelectSeq(IdsOf(conversations), LAMBDA c : c # id)
                           ELSE <<>>]}
    /\ UNCHANGED <<conversations, isLoadingMessages, listLoaded, nextConversation>>
    /\ UNCHANGED <<mgrVars, dbVars, uploadVars, chatVars>>

\* variant of ListAfterDelete that takes the conversation out of the list
\* whatever the server answered
ListAfterDeleteAnyway(list, id, ok) == SelectSeq(list, LAMBDA c : c.id # id)

\* setConversations((prev) => prev.filter(...)) runs only after the await
ListAfterDelete(list, id, ok) ==
    IF ok THEN SelectSeq(list, LAMBDA c : c.id # id) ELSE list

\* the selection after a delete: another conversation of the closure's list
\* when the closure's selected conversation is the deleted one
SelectionAfterDelete(call, ok) ==
    IF ok /\ call.selected
    THEN IF Len(call.remaining) > 0 THEN call.remaining[1] ELSE NULL
    ELSE currentConversationId

\* deleteConversation(id) of a handleDeleteConversation call returns, or throws
deleteConversationCompletes(call, ok) ==
    /\ call \in inFlight
    /\ call.kind = "delete"
    /\ ok => call.id \in DOMAIN tblConversations
    /\ IF ok
       THEN LET goneMsgs == CascadeMessages(tblMessages, {call.id})
                goneAtts == CascadeAttachments(tblAttachments, {call.id}, goneMsgs)
            IN /\ tblConversations' = Without(tblConversations, {call.id})
               /\ tblMessages' = Without(tblMessages, goneMsgs)
               /\ tblAttachments' = Without(tblAttachments, goneAtts)
       ELSE UNCHANGED tables
    /\ lastOp' = [op |-> "deleteConversation", ok |-> ok]
    /\ conversations' = ListAfterDelete(conversations, call.id, ok)
    /\ SelectionBecomes(SelectionAfterDelete(call, ok), inFlight \ {call}, messages)
    /\ lastHandled' = NoEvent
    /\ UNCHANGED <<listLoaded, nextConversation>>
    /\ UNCHANGED <<isStreaming, streamingContent, chunksSinceStart, chatRequests,
                   answered, serving>>
    /\ UNCHANGED <<mgrVars, uploadVars>>

\* the titles the rename dialog hands over (never blank)
RenameTitles == {"Notes"}

\* handleRenameConversation(id, title), updateConversation having returned or
\* thrown
handleRenameConversation(id, title, ok) ==
    /\ ChatMounted
    /\ id \in Range(IdsOf(conversations))
    /\ ok => id \in DOMAIN tblConversations
    /\ tblConversations' =
         IF ok THEN [tblConversations EXCEPT ![id] = title] ELSE tblConversations
    /\ lastOp' = [op |-> "updateConversation", ok |-> ok]
    /\ conversations' =
         IF ok THEN [i \in 1..Len(conversations) |->
                       IF conversations[i].id = id
                       THEN [conversations[i] EXCEPT !.title = title]
                       ELSE conversations[i]]
         ELSE conversations
    /\ UNCHANGED <<tblMessages, tblAttachments>>
    /\ UNCHANGED <<isLoadingMessages, inFlight, listLoaded, nextConversation>>
    /\ UNCHANGED <<mgrVars, uploadVars, chatVars>>

\* what GET /api/conversations returns: the stored conversations, newest first
StoredConversations ==
    LET ids == Descending(DOMAIN tblConversations)
    IN [i \in 1..Len(ids) |-> [id |-> ids[i], title |-> tblConversations[ids[i]]]]

\* getConversations() of the mount effect's loadConversations returns, or
\* throws; its closure holds the currentConversationId of the first render
loadConversationsCompletes(ok) ==
    /\ ChatMounted
    /\ ~ listLoaded
    /\ listLoaded' = TRUE
    /\ conversations' = IF ok THEN StoredConversations ELSE conversations
    /\ SelectionBecomes(IF ok /\ Len(StoredConversations) > 0
                        THEN StoredConversations[1].id
                        ELSE currentConversationId,
                        inFlight, messages)
    /\ lastHandled' = NoEvent
    /\ UNCHANGED nextConversation
    /\ UNCHANGED <<isStreaming, streamingContent, chunksSinceStart, chatRequests,
                   answered, serving>>
    /\ UNCHANGED <<mgrVars, dbVars, uploadVars>>

\* the conversations of the chat page: creating, selecting, renaming and
\* deleting them while API calls are in flight
ConvNext ==
    \/ subscribe(1)
    \/ addMessageListener(1)
    \/ ConsumerConnect(1)
    \/ \E id \in ConversationIds : handleNewConversation(id)
    \/ \E id \in ConversationIds : handleSelectConversation(id)
    \/ \E call \in inFlight, ok \in BOOLEAN : loadMessagesCompletes(call, ok)
    \/ \E id \in MessageIds \ DOMAIN tblMessages :
           /\ currentConversationId \in DOMAIN tblConversations
           /\ InsertMessage(id, currentConversationId, "user")
    \/ \E id \in ConversationIds : handleDeleteConversation(id)
    \/ \E call \in inFlight, ok \in BOOLEAN : deleteConversationCompletes(call, ok)
    \/ \E id \in ConversationIds, title \in RenameTitles, ok \in BOOLEAN :
           handleRenameConversation(id, title, ok)
    \/ \E ok \in BOOLEAN : loadConversationsCompletes(ok)

ConvSpec == Init /\ [][ConvNext]_vars

\* the delete and rename calls of the sidebar alone, each returning or throwing
\* while conversations are created and selected
ConvCallNext ==
    \/ subscribe(1)
    \/ addMessageListener(1)
    \/ ConsumerConnect(1)
    \/ \E id \in ConversationIds : handleNewConversation(id)
    \/ \E id \in ConversationIds : handleSelectConversation(id)
    \/ \E call \in inFlight, ok \in BOOLEAN : loadMessagesCompletes(call, ok)
    \/ \E id \in ConversationIds : handleDeleteConversation(id)
    \/ \E call \in inFlight, ok \in BOOLEAN : deleteConversationCompletes(call, ok)
    \/ \E id \in ConversationIds, title \in RenameTitles, ok \in BOOLEAN :
           handleRenameConversation(id, title, ok)

ConvCallSpec == Init /\ [][ConvCallNext]_vars

\* the texts typed into the message box: characters, " " being white space
SubmitTexts == {<<>>, <<" ">>, <<"x">>, <<" ", "x", " ">>}

RECURSIVE trimStart(_)
trimStart(text) ==
    IF text # <<>> /\ Head(text) = " " THEN trimStart(Tail(text)) ELSE text

RECURSIVE trimEnd(_)
trimEnd(text) ==
    IF text # <<>> /\ text[Len(text)] = " "
    THEN trimEnd(SubSeq(text, 1, Len(text) - 1))
    ELSE text

\* message.trim()
trim(text) == trimEnd(trimStart(text))

\* variant of NothingToSend that looks at the text as typed
NothingToSendUntrimmed(text, fs) == text = <<>> /\ Len(fs) = 0

\* !trimmedMessage && files.length === 0
NothingToSend(text, fs) == trim(text) = <<>> /\ Len(fs) = 0

\* onChange of the message box: setMessage(e.target.value)
setMessage(text) ==
    /\ ChatMounted
    /\ currentConversationId # NULL
    /\ message # text
    /\ nextMsg <= MaxSends
    /\ message' = text
    /\ UNCHANGED <<files, isUploading, selections, selectedFiles, capturedFiles,
                   verdict, alerts>>
    /\ UNCHANGED <<mgrVars, dbVars, chatVars, convVars>>

\* handleSubmit of the message input: it calls handleSendMessage, which (the
\* input being rendered only while a conversation is selected) calls
\* sendMessageToServer; then setMessage("") and setFiles([])
handleSubmit ==
    /\ ChatMounted
    /\ currentConversationId # NULL
    /\ ~ NothingToSend(message, files)
    /\ ~ (~ isConnected \/ isStreaming)
    /\ nextMsg <= MaxSends
    /\ messages' = Append(messages,
                          [role |-> "user", n |-> nextMsg,
                           conversation_id |-> currentConversationId,
                           content |-> trim(message), attachments |-> files])
    /\ LET out == SendOutcome(ws, rs) IN
         /\ transmitted' = IF out.tx THEN transmitted \cup {nextMsg} ELSE transmitted
         /\ rejected' = IF out.ret THEN rejected ELSE rejected \cup {nextMsg}
         /\ chatRequests' = IF out.tx
                            THEN chatRequests \cup {[n |-> nextMsg, socket |-> ws]}
                            ELSE chatRequests
    /\ nextMsg' = nextMsg + 1
    /\ message' = <<>>
    /\ files' = <<>>
    /\ lastHandled' = NoEvent
    /\ lastDispatch' = NoDispatch
    /\ UNCHANGED <<isStreaming, streamingContent, chunksSinceStart,
                   currentConversationId, answered, serving>>
    /\ UNCHANGED <<isUploading, selections, selectedFiles, capturedFiles, verdict,
                   alerts>>
    /\ UNCHANGED <<ws, rs, timerVars, listeners, observed, messageListeners,
                   connectionCount, connected, envVars, pingsSent>>
    /\ UNCHANGED <<dbVars, convVars>>

ChatNext ==
    \/ subscribe(1)
    \/ addMessageListener(1)
    \/ ConsumerConnect(1)
    \/ \E t \in pendingReconnects : ReconnectTimerFires(t)
    \/ \E s \in Sockets : OnOpen(s)
    \/ \E s \in Sockets : ServerStartsClose(s)
    \/ \E s \in Sockets : CloseCompletes(s)
    \/ \E s \in Sockets : ConnectionLost(s)
    \/ \E id \in ConversationIds : handleNewConversation(id)
    \/ setMessage(<<"x">>)
    \/ handleSubmit
    \/ \E s \in Sockets, type \in ChatEvents, content \in ChunkContents :
           ServerDelivers(s, type, content)

ChatSpec == Init /\ [][ChatNext]_vars

\* the browser delivers the events of a socket and runs scheduled timeouts, and
\* the server goes on with the turn it is running
ChatLiveSpec ==
    /\ Init
    /\ [][ChatNext]_vars
    /\ WF_vars(\E t \in pendingReconnects : ReconnectTimerFires(t))
    /\ WF_vars(\E s \in Sockets : OnOpen(s))
    /\ WF_vars(\E s \in Sockets : CloseCompletes(s))
    /\ WF_vars(\E s \in Sockets, type \in ChatEvents, content \in ChunkContents :
                   ServerDelivers(s, type, content))

\* the message input on the chat page: typing, attaching one file at a time,
\* submitting, while the connection comes and goes and responses stream
AttachableFiles == {[type |-> "image/png", size |-> 26214400]}

InputNext ==
    \/ subscribe(1)
    \/ addMessageListener(1)
    \/ ConsumerConnect(1)
    \/ \E s \in Sockets : OnOpen(s)
    \/ \E s \in Sockets : ConnectionLost(s)
    \/ \E id \in ConversationIds : handleNewConversation(id)
    \/ \E text \in SubmitTexts : setMessage(text)
    \/ \E f \in AttachableFiles : handleFileSelect(<<f>>)
    \/ \E i \in Uploading : UploadResolves(i)
    \/ handleSubmit
    \/ \E s \in Sockets, type \in ChatEvents, content \in ChunkContents :
           ServerDelivers(s, type, content)

InputSpec == Init /\ [][InputNext]_vars

\* =========================================================== claims ====
LiveSockets == {s \in Sockets : rs[s] \in {"OPEN", "CONNECTING"}}

\* largest socket number a run can reach: every socket is created by a
\* consumer's connect() or by a timeout scheduled by a close event
MaxSocketId == 2 * MaxMounts + MaxDrops + 1

\* C1: whenever no consumer is connected, no socket is OPEN or CONNECTING,
\* no keep-alive interval is running and no reconnect timeout is pending.
C1_IdleWhenNoConsumer ==
    connected = {} =>
        /\ LiveSockets = {}
        /\ activePings = {}
        /\ pendingReconnects = {}

\* C2: at every moment at most one socket created by the manager is OPEN
\* or CONNECTING.
C2_AtMostOneLiveSocket == Cardinality(LiveSockets) <= 1

\* two consumers share the one live socket, an earlier socket having been
\* replaced
C2_Witness ==
    /\ Cardinality(connected) = 2
    /\ Len(rs) >= 2
    /\ Cardinality(LiveSockets) = 1

\* C3: send returns false and transmits nothing when the current socket is
\* absent or not OPEN, returns true after transmitting exactly one frame
\* when it is OPEN, and never changes the socket, the counter or the timers.
C3_SendContract ==
    [][nextMsg' # nextMsg =>
         /\ IF ws = NULL \/ rs[ws] # "OPEN"
            THEN /\ nextMsg \in rejected'
                 /\ transmitted' = transmitted
            ELSE /\ nextMsg \notin rejected'
                 /\ nextMsg \notin transmitted
                 /\ transmitted' = transmitted \cup {nextMsg}
         /\ pingsSent' = pingsSent
         /\ UNCHANGED <<ws, rs, connectionCount, timerVars>>]_vars

\* one send was refused and one went out
C3_Witness == rejected # {} /\ transmitted # {}

\* C4: a message whose send() returned false is never put on any socket
\* later, whatever opens, reconnects or sends follow.
C4_NoResend == rejected \cap transmitted = {}

\* a send was refused, and after it a socket opened and carried a later send
C4_Witness == \E m \in rejected : \E n \in transmitted : m < n

\* C5: if the current socket closes while a consumer is connected, then
\* either the consumers all disconnect or a new socket is created.
C5_ReconnectAfterClose ==
    \A s \in 1..MaxSocketId :
        (ws = s /\ s \in Sockets /\ rs[s] = "CLOSED" /\ connected # {})
            ~> (connected = {} \/ (ws # NULL /\ ws # s))

\* the only consumer connected once, its socket closed, and a timeout made
\* the socket that is current now
C5_Witness ==
    /\ mounts = 1
    /\ connected # {}
    /\ Len(rs) >= 2
    /\ ws = Len(rs)
    /\ rs[1] = "CLOSED"

\* C6: at most one reconnect timeout is pending at any time.
C6_AtMostOneReconnectPending == Cardinality(pendingReconnects) <= 1

\* C7: while the current socket is OPEN and a consumer is connected, a
\* keep-alive interval is running.
C7_KeepAliveWhileOpen ==
    (connected # {} /\ ws # NULL /\ rs[ws] = "OPEN") => activePings # {}

\* C8: once every socket of the manager has closed and its close event has
\* been handled, no keep-alive interval is running.
C8_NoKeepAliveLeak ==
    (Sockets # {} /\ \A s \in Sockets : rs[s] = "CLOSED") => activePings = {}

\* C9: a disconnect() that leaves another consumer connected does not close
\* the socket, stop the keep-alive or cancel a pending reconnect.
C9_DisconnectKeepsSharedSocket ==
    [][(connected' # connected /\ connected' \subseteq connected /\ connected' # {})
          => UNCHANGED <<ws, rs, timerVars>>]_vars

\* two consumers connected, one has disconnected, and the only socket ever
\* made is still current, OPEN and kept alive
C9_Witness ==
    /\ mounts = 2
    /\ Cardinality(connected) = 1
    /\ Len(rs) = 1
    /\ ws = 1
    /\ rs[1] = "OPEN"
    /\ activePings = {1}

\* C10: an inbound frame that parses as JSON is delivered exactly once to
\* every message listener registered at that moment and to no other; a
\* frame that does not parse is delivered to none.
C10_FanOut ==
    lastDispatch.op = "message" =>
        \A l \in MessageListenerIds :
            lastDispatch.calls[l] =
                IF JSONParses(lastDispatch.text) /\ l \in lastDispatch.registered
                THEN 1 ELSE 0

\* C11: a subscribed state listener whose last observed value differs from
\* getSnapshot() is notified again, so that the value it observed equals the
\* snapshot (or it unsubscribes first).
C11_ObservedCatchesUp ==
    \A l \in StateListenerIds :
        (l \in listeners /\ observed[l] # getSnapshot(ws, rs))
            ~> (l \notin listeners \/ observed[l] = getSnapshot(ws, rs))

\* a subscriber still holds true after disconnect() closed the socket and
\* dropped it, the close event being due
C11_Witness ==
    \E l \in listeners :
        /\ observed[l]
        /\ ws = NULL
        /\ connected = {}
        /\ \E s \in Sockets : rs[s] = "CLOSING"

\* rows of the three tables reference rows that exist
ReferencesExist ==
    /\ \A m \in DOMAIN tblMessages :
           tblMessages[m].conversation_id \in DOMAIN tblConversations
    /\ \A a \in DOMAIN tblAttachments :
           /\ tblAttachments[a].message_id \in DOMAIN tblMessages
           /\ tblAttachments[a].conversation_id \in DOMAIN tblConversations

\* C14: every message references an existing conversation and every
\* attachment an existing message and conversation; a deleted conversation
\* is gone with all its messages and attachments, a deleted message with
\* all its attachments.
C14_ReferentialIntegrity ==
    /\ ReferencesExist
    /\ lastOp.op = "delete_conversation" =>
           /\ lastOp.id \notin DOMAIN tblConversations
           /\ \A m \in DOMAIN tblMessages : tblMessages[m].conversation_id # lastOp.id
           /\ \A a \in DOMAIN tblAttachments :
                  tblAttachments[a].conversation_id # lastOp.id
    /\ lastOp.op = "delete_message" =>
           /\ lastOp.id \notin DOMAIN tblMessages
           /\ \A a \in DOMAIN tblAttachments : tblAttachments[a].message_id # lastOp.id

\* a conversation was deleted and took a message and an attachment with it
C14_Witness ==
    /\ lastOp.op = "delete_conversation"
    /\ lastOp.messages >= 1
    /\ lastOp.attachments >= 1

\* C15: the conversation an attachment references is the conversation of
\* the message it references.
C15_AttachmentConversationIsMessageConversation ==
    \A a \in DOMAIN tblAttachments :
        tblAttachments[a].conversation_id =
            tblMessages[tblAttachments[a].message_id].conversation_id

\* C16: stored roles are 'user' or 'assistant' and stored types 'image' or
\* 'pdf'; an insert carrying another value is rejected and changes no table.
C16_EnumeratedValues ==
    [][/\ \A m \in DOMAIN tblMessages' :
             tblMessages'[m].role \in {"user", "assistant"}
       /\ \A a \in DOMAIN tblAttachments' :
             tblAttachments'[a].type \in {"image", "pdf"}
       /\ (\/ /\ lastOp'.op = "insert_message"
              /\ lastOp'.value \notin {"user", "assistant"}
           \/ /\ lastOp'.op = "insert_attachment"
              /\ lastOp'.value \notin {"image", "pdf"})
            => (~ lastOp'.ok /\ UNCHANGED tables)]_vars

\* rows with both roles and a type are stored, and a statement carrying a
\* value outside the enumeration has just been refused
C16_Witness ==
    /\ \E m \in DOMAIN tblMessages : tblMessages[m].role = "user"
    /\ \E a \in DOMAIN tblAttachments : tblAttachments[a].type = "pdf"
    /\ lastOp.op = "insert_message"
    /\ lastOp.value = "system"
    /\ ~ lastOp.ok

\* C20: createConversation with no title or an empty one asks for the
\* conversations table's default title, and with a non-empty title for
\* exactly that title.
C20_CreateConversationTitle ==
    lastOp.op = "createConversation" =>
        lastOp.body.title =
            IF ~ lastOp.arg.given \/ lastOp.arg.text = ""
            THEN TableDefaultTitle
            ELSE lastOp.arg.text

\* the empty title was passed while a conversation is stored
C20_Witness ==
    /\ lastOp.op = "createConversation"
    /\ lastOp.arg = [given |-> TRUE, text |-> ""]
    /\ lastOp.body.title = "New Conversation"
    /\ DOMAIN tblConversations # {}

\* ------------------------------------------------------------------------
\* the selected files whose turn in the loop has come
Processed == {i \in 1..Len(verdict) : verdict[i] # "waiting"}

\* the selected files for which onUpload was called
UploadCalled == {i \in 1..Len(verdict) : verdict[i] \in {"uploading", "uploaded", "failed"}}

SelectionDone == selections > 0 /\ Uploading = {} /\ Processed = 1..Len(verdict)

AllowListed(type) ==
    type \in {"image/jpeg", "image/png", "image/gif", "image/webp", "application/pdf"}

\* C17: a selected file whose media type is outside the allow-list, or whose
\* size exceeds 26214400 bytes, is rejected without an upload call; a file of
\* an allowed type and of at most 26214400 bytes is passed to the upload call.
C17_RejectedBeforeUpload ==
    \A i \in Processed :
        LET f == selectedFiles[i]
        IN IF ~ AllowListed(f.type) \/ f.size > 26214400
           THEN verdict[i] \in {"rejected_type", "rejected_size"} /\ i \notin UploadCalled
           ELSE i \in UploadCalled

C17_Witness ==
    /\ SelectionDone
    /\ \E i, j \in Processed :
           /\ selectedFiles[i].size = 26214400 /\ i \in UploadCalled
           /\ selectedFiles[j].size = 26214401 /\ verdict[j] = "rejected_size"

\* C18: the file selector accepts a selected file if and only if the file's
\* media type is among the bucket's allowed_mime_types and its size is within
\* the bucket's file_size_limit.
C18_ClientAgreesWithBucket ==
    \A i \in Processed :
        (i \in UploadCalled) <=> BucketAccepts(selectedFiles[i])

C18_Witness ==
    /\ SelectionDone
    /\ \E i, j \in Processed :
           /\ selectedFiles[i].type = "image/webp" /\ i \in UploadCalled
           /\ selectedFiles[j].type = "text/plain" /\ j \notin UploadCalled

\* C19: of several files selected at once, a rejected or failed file gets
\* exactly one error report, is not among the pending attachments, and the
\* files selected after it are still processed; a file that uploaded gets no
\* error report.
C19_PerFileOutcome ==
    /\ \A i \in Processed :
           /\ verdict[i] \in {"rejected_type", "rejected_size", "failed"}
                  => alerts[i] = 1 /\ <<selections, i>> \notin Range(files)
           /\ verdict[i] \in {"uploading", "uploaded"} => alerts[i] = 0
    /\ \A i \in 1..Len(verdict) : i \notin Processed => alerts[i] = 0
    /\ Uploading = {} /\ selections > 0 => Processed = 1..Len(verdict)
    /\ \A i \in Uploading : 1..i \subseteq Processed

C19_Witness ==
    /\ SelectionDone
    /\ Len(verdict) > 1
    /\ verdict[1] \in {"rejected_type", "rejected_size", "failed"}
    /\ verdict[Len(verdict)] = "uploaded"
    /\ <<selections, Len(verdict)>> \in Range(files)

\* C12: no chat request is put on the wire of a socket while an earlier chat
\* request sent on that socket has had neither its stream_end nor its error.
C12_OneOutstandingRequest ==
    [][\A r \in chatRequests' \ chatRequests : Unanswered(r.socket) = {}]_vars

\* C13: once an error event is handled, isStreaming is false, the streamed
\* content is empty and the message list is what it was before the event.
C13_ErrorAbortsStream ==
    lastHandled.type = "error" =>
        /\ ~ isStreaming
        /\ streamingContent = <<>>
        /\ messages = lastHandled.messages

C13_Witness ==
    /\ lastHandled.type = "error"
    /\ lastHandled.isStreaming
    /\ lastHandled.streamingContent # <<>>
    /\ 1 \in Range(messageListeners)

\* C21: connectionCount equals the number of consumers that have called
\* connect() and have not yet called disconnect().
C21_CountIsConsumers == connectionCount = Cardinality(connected)

\* C22: when a stream_end event is handled, the accumulated streaming content
\* is the contents of the stream_chunk events received since the last
\* stream_start, in their order; stream_start, stream_end and error leave the
\* accumulator empty.
C22_ContentIsChunksInOrder ==
    /\ lastHandled.type = "stream_end" =>
           lastHandled.streamingContent = lastHandled.chunksSinceStart
    /\ lastHandled.type \in {"stream_start", "stream_end", "error"} =>
           streamingContent = <<>>

C22_Witness ==
    /\ lastHandled.type = "stream_end"
    /\ lastHandled.chunksSinceStart = <<"a", "b">>
    /\ streamingContent = <<>>

\* C23: whenever isStreaming is true it eventually becomes false again.
C23_StreamingEnds == isStreaming ~> ~ isStreaming

\* C24: every user message in the displayed message list was put on the wire.
C24_ShownMeansSent ==
    \A i \in 1..Len(messages) :
        messages[i].role = "user" => messages[i].n \in transmitted

\* the condition under which Chat renders the ThinkingIndicator
ThinkingShown ==
    /\ Len(messages) > 0
    /\ messages[Len(messages)].role = "user"
    /\ streamingContent = <<>>

\* C28: once the stream_end or the error event that ends a turn has been
\* handled, the thinking indicator is no longer shown (nothing the client does
\* by itself afterwards would remove it).
C28_IndicatorGoneAtTurnEnd ==
    lastHandled.type \in {"stream_end", "error"} => ~ ThinkingShown

\* C30: a chat request is submitted only when the trimmed text is not empty or
\* attachments are pending, and the input is connected and no response is
\* streaming; the submission hands over the trimmed text with all pending
\* attachments and leaves the text and the pending attachments empty.
C30_SubmitContract ==
    [][nextMsg' # nextMsg =>
          /\ trim(message) # <<>> \/ files # <<>>
          /\ isConnected
          /\ ~ isStreaming
          /\ messages' = Append(messages,
                                [role |-> "user", n |-> nextMsg,
                                 conversation_id |-> currentConversationId,
                                 content |-> trim(message), attachments |-> files])
          /\ message' = <<>>
          /\ files' = <<>>]_vars

C30_Witness ==
    /\ Len(messages) > 0
    /\ messages[Len(messages)].role = "user"
    /\ messages[Len(messages)].content = <<>>
    /\ messages[Len(messages)].attachments # <<>>
    /\ message = <<>>
    /\ files = <<>>

\* C27: every file of a selection that uploads is added at the end of the
\* pending attachments as they are at that moment, so that after a selection
\* of N files that all upload the list is the earlier one followed by the N
\* new files.
C27_NoUploadLost ==
    [][\A i \in Uploading :
          verdict'[i] = "uploaded" => files' = Append(files, <<selections, i>>)]_vars

\* C25: every message of the displayed message list belongs to the selected
\* conversation (the list is displayed while a conversation is selected and
\* no load of messages is under way).
C25_MessagesOfSelectedConversation ==
    currentConversationId # NULL /\ ~ isLoadingMessages =>
        \A i \in 1..Len(messages) :
            messages[i].conversation_id = currentConversationId

\* C26: the selected conversation id is null or the id of a conversation of
\* the client's conversation list.
C26_SelectionInList ==
    currentConversationId = NULL
        \/ currentConversationId \in Range(IdsOf(conversations))

\* C29: a delete or rename call that fails leaves the conversation list, its
\* titles and the selected conversation as they were, and starting a delete
\* changes none of them either.
C29_FailureChangesNothing ==
    [][((\/ \E call \in inFlight : deleteConversationCompletes(call, FALSE)
        \/ \E id \in ConversationIds, title \in RenameTitles :
               handleRenameConversation(id, title, FALSE))
          => UNCHANGED <<conversations, currentConversationId>>)
       /\ ((\E id \in ConversationIds : handleDeleteConversation(id))
              => UNCHANGED <<conversations, currentConversationId>>)]_vars

C29_Witness ==
    /\ lastOp.op \in {"deleteConversation", "updateConversation"}
    /\ ~ lastOp.ok
    /\ currentConversationId \in Range(IdsOf(conversations))
    /\ Len(conversations) > 1

====
